---- MODULE Spec2Model ----
(***************************************************************************)
(* A model of the availability checker (app/checker.py), its notification  *)
(* sink (app/notifier.py), the configuration loader (app/config.py) and    *)
(* the scheduling loop (app/main.py).                                      *)
(*                                                                         *)
(* Text is modelled as a sequence of tokens: the name "a" is <<"a">>, the  *)
(* URL "http://x" is <<"http://", "x">>, and string concatenation is \o.   *)
(* The tokens form a prefix code, so two token sequences are equal exactly *)
(* when the strings they spell are equal.                                  *)
(***************************************************************************)
EXTENDS Integers, Sequences, FiniteSets, TLC

\* Largest failure_threshold a target of the model is configured with.
MaxThreshold == 2
\* check_targets is not called with a probe that would take a counter above this.
MaxFailures == 3
\* Longest target list passed to check_targets.
MaxTargets == 2

VARIABLES
    _states,        \* AvailabilityChecker._states: state_key -> TargetState
    _notifier,      \* AvailabilityChecker._notifier (the TelegramConfig it was built from)
    _checker_name,  \* AvailabilityChecker._checker_name
    pc,             \* check_targets: "idle" (no call in progress) or "checking"
    pending,        \* check_targets: the enabled targets its for loop has not reached yet
    last,           \* history: what the latest step of the call in progress did
    call,           \* history: the call in progress: the disabled targets of its list,
                    \*          whether a request raised, and the enabled targets an
                    \*          exception made it leave unchecked
    hist,           \* history: per state key, the probes since its last success
    ref_states,     \* history: _states as it would be had every send returned true
    config_file,    \* the document config.json holds
    service,        \* run_service: where it is, its config, the exception that ended it
    seen,           \* history: per state key, what the owner of the checker has seen of
                    \*          it: the kind of its latest notification, whether a call
                    \*          has left it out since its latest probe, its probes in the
                    \*          call in progress
    io              \* one call of a function taken alone: its arguments and its result

checker_vars == <<_states, _notifier, _checker_name, pc, pending, last, call, hist, ref_states>>

service_vars == <<config_file, service>>

observer_vars == <<seen, io>>

vars == <<checker_vars, service_vars, observer_vars>>

----------------------------------------------------------------------------
(* Optional strings (str | None).                                          *)

None == [some |-> FALSE, val |-> <<>>]

Some(s) == [some |-> TRUE, val |-> s]

----------------------------------------------------------------------------
(* app/config.py: the typed configuration.                                 *)

TelegramConfig(bot_token, chat_id) == [bot_token |-> bot_token, chat_id |-> chat_id]

TargetConfig(name, url, enabled, timeout_seconds, failure_threshold) ==
    [name |-> name, url |-> url, enabled |-> enabled,
     timeout_seconds |-> timeout_seconds, failure_threshold |-> failure_threshold]

\* The targets of the model: the first (name, url) pair with two thresholds and
\* disabled, a second with the same name, and a third with the same URL.
TargetConfigs ==
    { TargetConfig(<<"a">>, <<"http://", "x">>, TRUE, 5, 1),
      TargetConfig(<<"a">>, <<"http://", "x">>, TRUE, 5, MaxThreshold),
      TargetConfig(<<"a">>, <<"http://", "x">>, FALSE, 5, 1),
      TargetConfig(<<"a">>, <<"http://", "y">>, TRUE, 5, MaxThreshold),
      TargetConfig(<<"b">>, <<"http://", "x">>, TRUE, 5, 1) }

TargetLists == UNION { [1..n -> TargetConfigs] : n \in 0..MaxTargets }

----------------------------------------------------------------------------
(* app/checker.py                                                          *)

TargetState == [consecutive_failures |-> 0, is_down |-> FALSE]

NoException == [type |-> "", message |-> <<>>]

\* What client.get of line 85 comes to: the final response, after `hops`
\* redirects httpx followed, or an exception.
Status(code, hops) == [kind |-> "status", code |-> code, hops |-> hops, exc |-> NoException]

Exception(type, message) ==
    [kind |-> "exception", code |-> 0, hops |-> 0, exc |-> [type |-> type, message |-> message]]

\* The answers the checker is driven with.
Responses ==
    { Status(200, 0), Status(503, 0), Exception("ConnectTimeout", <<"timed out">>) }

\* Line 88: the f-string of a status.
StatusReason(code) == <<"status_code=", ToString(code)>>

\* Line 90: the f-string of an exception.
ExceptionReason(exc) == <<exc.type, ": ">> \o exc.message

\* Variant: the except clause of lines 89-90 is missing.
_request_status_raises(target, response) ==
    IF response.kind = "exception"
    THEN [raised |-> TRUE, is_ok |-> FALSE, reason |-> ExceptionReason(response.exc), gets |-> 1]
    ELSE IF response.code = 200
         THEN [raised |-> FALSE, is_ok |-> TRUE, reason |-> <<"status_code=", "200">>, gets |-> 1]
         ELSE [raised |-> FALSE, is_ok |-> FALSE, reason |-> StatusReason(response.code), gets |-> 1]

\* Variant: every 2xx status counts as available.
_request_status_any_2xx(target, response) ==
    IF response.kind = "exception"
    THEN [raised |-> FALSE, is_ok |-> FALSE, reason |-> ExceptionReason(response.exc), gets |-> 1]
    ELSE IF response.code >= 200 /\ response.code < 300
         THEN [raised |-> FALSE, is_ok |-> TRUE, reason |-> <<"status_code=", "200">>, gets |-> 1]
         ELSE [raised |-> FALSE, is_ok |-> FALSE, reason |-> StatusReason(response.code), gets |-> 1]

\* Lines 82-90: one call of client.get (gets = 1), whose exceptions all become
\* a failed result (raised = FALSE).
_request_status(target, response) ==
    IF response.kind = "exception"
    THEN [raised |-> FALSE, is_ok |-> FALSE, reason |-> ExceptionReason(response.exc), gets |-> 1]
    ELSE IF response.code = 200
         THEN [raised |-> FALSE, is_ok |-> TRUE, reason |-> <<"status_code=", "200">>, gets |-> 1]
         ELSE [raised |-> FALSE, is_ok |-> FALSE, reason |-> StatusReason(response.code), gets |-> 1]

_message_prefix(checker_name) ==
    IF ~checker_name.some \/ checker_name.val = <<>>
    THEN <<>>
    ELSE <<"[">> \o checker_name.val \o <<"] ">>

\* Variant: the key is the name alone.
state_key_name_only(target) == target.name

\* Line 47.
state_key(target) == target.name \o <<"|">> \o target.url

RecoveredMessage(checker_name, target) ==
    _message_prefix(checker_name) \o <<"[RECOVERED] ">> \o target.name
        \o <<" is back online: ">> \o target.url

DownMessage(checker_name, target, reason, state) ==
    LET response_info == IF reason[1] = "status_code=" THEN reason ELSE <<"error=">> \o reason
    IN  _message_prefix(checker_name) \o <<"[DOWN] ">> \o target.name
            \o <<" is unavailable: ">> \o target.url \o <<". Response: ">> \o response_info
            \o <<". Failures: ", ToString(state.consecutive_failures), "/",
                 ToString(target.failure_threshold)>>

----------------------------------------------------------------------------
(* app/notifier.py                                                         *)

\* What client.post of line 21 comes to: a response with a status and a body,
\* or an exception (transport names it).
Answer(status, body) == [transport |-> "ok", status |-> status, body |-> body]

TransportError(type) == [transport |-> type, status |-> 0, body |-> <<>>]

\* The body {"ok": value}, as tokens.
OkBody(value) == <<"{", "ok", ":", value, "}">>

AnswerOk == Answer(200, OkBody("true"))

\* The answers the checker is driven with.
SinkAnswers == { AnswerOk, TransportError("ConnectError") }

\* The JSON values a field holds in the model, as the tokens that spell them.
JsonValues == {"true", "false", "null", "0", "1", "''", "'x'", "[]"}

\* bool(value) of the Python value a JSON token decodes to.
truthy(value) == value \in {"true", "1", "'x'"}

\* response.json(): the document decoded, or an exception (JSONDecodeError).
json(body) ==
    IF body = <<"{", "}">>
    THEN [raised |-> FALSE, is_dict |-> TRUE, has_ok |-> FALSE, ok |-> "null"]
    ELSE IF Len(body) = 5 /\ body = OkBody(body[4]) /\ body[4] \in JsonValues
    THEN [raised |-> FALSE, is_dict |-> TRUE, has_ok |-> TRUE, ok |-> body[4]]
    ELSE IF Len(body) = 1 /\ body[1] \in JsonValues
    THEN [raised |-> FALSE, is_dict |-> FALSE, has_ok |-> FALSE, ok |-> "null"]
    ELSE [raised |-> TRUE, is_dict |-> FALSE, has_ok |-> FALSE, ok |-> "null"]

\* response.raise_for_status() raises for every status that is not 2xx.
raise_for_status(status) == status < 200 \/ status >= 300

\* Variant: the acknowledgment of line 24 is not looked at.
send_ignores_ok(notifier, message, answer) ==
    IF answer.transport # "ok" THEN [raised |-> FALSE, result |-> FALSE]
    ELSE IF raise_for_status(answer.status) THEN [raised |-> FALSE, result |-> FALSE]
    ELSE IF json(answer.body).raised THEN [raised |-> FALSE, result |-> FALSE]
    ELSE [raised |-> FALSE, result |-> TRUE]

\* TelegramNotifier.send, lines 17-30. Whatever lines 20-24 raise (the post,
\* raise_for_status, json, and data.get on a document that is no object) is
\* caught at line 28 (raised = FALSE).
send(notifier, message, answer) ==
    LET data == json(answer.body) IN
    IF answer.transport # "ok" THEN [raised |-> FALSE, result |-> FALSE]
    ELSE IF raise_for_status(answer.status) THEN [raised |-> FALSE, result |-> FALSE]
    ELSE IF data.raised THEN [raised |-> FALSE, result |-> FALSE]
    ELSE IF ~data.is_dict THEN [raised |-> FALSE, result |-> FALSE]
    ELSE IF ~truthy(IF data.has_ok THEN data.ok ELSE "false")
    THEN [raised |-> FALSE, result |-> FALSE]
    ELSE [raised |-> FALSE, result |-> TRUE]

----------------------------------------------------------------------------
(* AvailabilityChecker._check_target on the entry `state` that setdefault  *)
(* returned: the entry afterwards, the notifications it sent with the      *)
(* value send returned for each, and whether an exception left it.         *)

\* Variant: line 54 is missing.
on_success_keeps_counter(state, target, answer, notifier, checker_name) ==
    IF state.is_down
    THEN LET message == RecoveredMessage(checker_name, target)
             sent == send(notifier, message, answer)
         IN  [raised |-> sent.raised,
              state |-> [state EXCEPT !.is_down = FALSE],
              sends |-> <<[message |-> message, result |-> sent.result]>>]
    ELSE [raised |-> FALSE,
          state |-> [state EXCEPT !.consecutive_failures = 0],
          sends |-> <<>>]

\* Variant: every success is announced, not only one that ends an outage.
on_success_always_notifies(state, target, answer, notifier, checker_name) ==
    LET message == RecoveredMessage(checker_name, target)
        sent == send(notifier, message, answer)
    IN  [raised |-> sent.raised,
         state |-> [consecutive_failures |-> 0, is_down |-> FALSE],
         sends |-> <<[message |-> message, result |-> sent.result]>>]

\* Variant: line 53 is missing.
on_success_leaves_down(state, target, answer, notifier, checker_name) ==
    IF state.is_down
    THEN LET message == RecoveredMessage(checker_name, target)
             sent == send(notifier, message, answer)
         IN  [raised |-> sent.raised,
              state |-> [state EXCEPT !.consecutive_failures = 0],
              sends |-> <<[message |-> message, result |-> sent.result]>>]
    ELSE [raised |-> FALSE,
          state |-> [state EXCEPT !.consecutive_failures = 0],
          sends |-> <<>>]

\* Lines 51-60: the probe succeeded.
on_success(state, target, answer, notifier, checker_name) ==
    IF state.is_down
    THEN LET message == RecoveredMessage(checker_name, target)
             sent == send(notifier, message, answer)
         IN  [raised |-> sent.raised,
              state |-> [consecutive_failures |-> 0, is_down |-> FALSE],
              sends |-> <<[message |-> message, result |-> sent.result]>>]
    ELSE [raised |-> FALSE,
          state |-> [state EXCEPT !.consecutive_failures = 0],
          sends |-> <<>>]

\* Variant: level-triggered, the entry's is_down is not looked at.
crosses_threshold_level(state, target) ==
    state.consecutive_failures >= target.failure_threshold

\* Variant: > for >=.
crosses_threshold_strict(state, target) ==
    ~state.is_down /\ state.consecutive_failures > target.failure_threshold

\* Variant: the threshold is not consulted.
crosses_threshold_at_once(state, target) == ~state.is_down

\* Line 72, on the entry whose counter line 62 has incremented.
crosses_threshold(state, target) ==
    ~state.is_down /\ state.consecutive_failures >= target.failure_threshold

\* Variant: a notification that was not delivered undoes the transition.
on_failure_rolls_back(state, target, reason, answer, notifier, checker_name) ==
    LET counted == [state EXCEPT !.consecutive_failures = @ + 1] IN
    IF crosses_threshold(counted, target)
    THEN LET down == [counted EXCEPT !.is_down = TRUE]
             message == DownMessage(checker_name, target, reason, down)
             sent == send(notifier, message, answer)
         IN  [raised |-> sent.raised, state |-> IF sent.result THEN down ELSE counted,
              sends |-> <<[message |-> message, result |-> sent.result]>>]
    ELSE [raised |-> FALSE, state |-> counted, sends |-> <<>>]

\* Variant: the counter stops growing once the entry is DOWN.
on_failure_capped(state, target, reason, answer, notifier, checker_name) ==
    LET counted == IF state.is_down THEN state
                   ELSE [state EXCEPT !.consecutive_failures = @ + 1] IN
    IF crosses_threshold(counted, target)
    THEN LET down == [counted EXCEPT !.is_down = TRUE]
             message == DownMessage(checker_name, target, reason, down)
             sent == send(notifier, message, answer)
         IN  [raised |-> sent.raised, state |-> down,
              sends |-> <<[message |-> message, result |-> sent.result]>>]
    ELSE [raised |-> FALSE, state |-> counted, sends |-> <<>>]

\* Lines 62-80: the probe failed. The value send returns is not used.
on_failure(state, target, reason, answer, notifier, checker_name) ==
    LET counted == [state EXCEPT !.consecutive_failures = @ + 1] IN
    IF crosses_threshold(counted, target)
    THEN LET down == [counted EXCEPT !.is_down = TRUE]
             message == DownMessage(checker_name, target, reason, down)
             sent == send(notifier, message, answer)
         IN  [raised |-> sent.raised, state |-> down,
              sends |-> <<[message |-> message, result |-> sent.result]>>]
    ELSE [raised |-> FALSE, state |-> counted, sends |-> <<>>]

_check_target(state, target, response, answer, notifier, checker_name) ==
    LET probe == _request_status(target, response) IN
    IF probe.raised THEN [raised |-> TRUE, state |-> state, sends |-> <<>>]
    ELSE IF probe.is_ok
    THEN on_success(state, target, answer, notifier, checker_name)
    ELSE on_failure(state, target, probe.reason, answer, notifier, checker_name)

\* Variant: no filter.
enabled_targets_unfiltered(targets) == targets

\* check_targets line 38: the enabled targets, in list order.
enabled_targets(targets) == SelectSeq(targets, LAMBDA t : t.enabled)

----------------------------------------------------------------------------
(* History variables.                                                      *)

Mixed == -1

FreshHist == [fails |-> 0, T |-> 0, downs |-> 0, reached |-> FALSE]

HasToken(message, token) == \E i \in 1..Len(message) : message[i] = token

IsDown(message) == HasToken(message, "[DOWN] ")

IsRecovered(message) == HasToken(message, "[RECOVERED] ")

Messages(sends) == [i \in 1..Len(sends) |-> sends[i].message]

NoTarget == TargetConfig(<<>>, <<>>, FALSE, 0, 0)

NoLast ==
    [op |-> "none", target |-> NoTarget, response |-> "", is_ok |-> FALSE,
     created |-> FALSE, pre |-> TargetState, sends |-> <<>>, ref_sent |-> <<>>]

NoCall == [disabled |-> 0, excepted |-> FALSE, skipped |-> <<>>]

\* How many targets of the list line 38 filters out.
Disabled(targets) == Len(targets) - Len(enabled_targets(targets))

\* Variant: a new TargetState on every check.
Lookup_fresh(map, key, default) == default

Lookup(map, key, default) == IF key \in DOMAIN map THEN map[key] ELSE default

Store(map, key, value) == [k \in DOMAIN map \cup {key} |-> IF k = key THEN value ELSE map[k]]

\* The probes of one state key since its last success: how many failed, the
\* threshold they were checked against (Mixed when it changed), the DOWN
\* notifications among them, and whether the counter reached a threshold.
NextHist(h, target, probe, out) ==
    IF probe.is_ok THEN FreshHist
    ELSE [fails |-> h.fails + 1,
          T |-> IF h.T = 0 \/ h.T = target.failure_threshold
                THEN target.failure_threshold ELSE Mixed,
          downs |-> h.downs + Cardinality({i \in 1..Len(out.sends) : IsDown(out.sends[i].message)}),
          reached |-> h.reached
                      \/ out.state.consecutive_failures >= target.failure_threshold]

----------------------------------------------------------------------------
(* The operations of AvailabilityChecker, called by its owner.             *)

\* One turn of the for loop of check_targets (lines 43-44) on `target`, with
\* `rest` the enabled targets after it: lines 47-49 and the rest of
\* _check_target. An exception leaving _check_target leaves check_targets.
\* `disabled` counts the targets line 38 filtered out of the list, `excepted`
\* tells whether the request of an earlier target of the call raised.
CheckOne(target, rest, disabled, excepted) ==
    \E response \in Responses, answer \in SinkAnswers :
        LET key == state_key(target)
            state == Lookup(_states, key, TargetState)
            out == _check_target(state, target, response, answer, _notifier, _checker_name)
            probe == _request_status(target, response)
            ref == _check_target(Lookup(ref_states, key, TargetState), target, response,
                                 AnswerOk, _notifier, _checker_name)
        IN  /\ out.state.consecutive_failures <= MaxFailures
            /\ _states' = Store(_states, key, out.state)
            /\ ref_states' = Store(ref_states, key, ref.state)
            /\ hist' = Store(hist, key, NextHist(Lookup(hist, key, FreshHist), target, probe, out))
            /\ pending' = IF out.raised THEN <<>> ELSE rest
            /\ call' = [disabled |-> disabled,
                        excepted |-> excepted \/ response.kind = "exception",
                        skipped |-> IF out.raised THEN rest ELSE <<>>]
            /\ last' = [op |-> "check", target |-> target, response |-> response.kind,
                        is_ok |-> probe.is_ok,
                        created |-> key \notin DOMAIN _states, pre |-> state,
                        sends |-> out.sends, ref_sent |-> Messages(ref.sends)]

\* A call of check_targets, up to the first await that suspends it.
check_targets(targets) ==
    /\ pc = "idle"
    /\ pc' = "checking"
    /\ IF enabled_targets(targets) = <<>>
       THEN /\ last' = [NoLast EXCEPT !.op = "warning"]
            /\ call' = [NoCall EXCEPT !.disabled = Disabled(targets)]
            /\ UNCHANGED <<_states, pending, hist, ref_states>>
       ELSE CheckOne(Head(enabled_targets(targets)), Tail(enabled_targets(targets)),
                     Disabled(targets), FALSE)
    /\ UNCHANGED <<_notifier, _checker_name, service_vars>>

\* The call resumes with the next enabled target.
check_targets_resume ==
    /\ pc = "checking"
    /\ pending # <<>>
    /\ CheckOne(Head(pending), Tail(pending), call.disabled, call.excepted)
    /\ UNCHANGED <<pc, _notifier, _checker_name, service_vars>>

\* The call returns to its caller.
check_targets_return ==
    /\ pc = "checking"
    /\ pending = <<>>
    /\ pc' = "idle"
    /\ last' = NoLast
    /\ call' = NoCall
    /\ UNCHANGED <<_states, _notifier, _checker_name, pending, hist, ref_states, service_vars>>

Notifiers == { TelegramConfig(<<"token1">>, <<"chat1">>), TelegramConfig(<<"token2">>, <<"chat1">>) }

CheckerNames == { None, Some(<<>>), Some(<<"n1">>) }

set_notifier(notifier) ==
    /\ pc = "idle"
    /\ _notifier' = notifier
    /\ UNCHANGED <<_states, _checker_name, pc, pending, last, call, hist, ref_states, service_vars>>

set_checker_name(checker_name) ==
    /\ pc = "idle"
    /\ _checker_name' = checker_name
    /\ UNCHANGED <<_states, _notifier, pc, pending, last, call, hist, ref_states, service_vars>>

NoStates == [k \in {} |-> TargetState]

\* A checker built by an owner other than run_service: no service, no file.
NoDocument == [readable |-> FALSE]

NoService == [pc |-> "none", config |-> [some |-> FALSE], exc |-> "", signalled |-> FALSE]

\* No state key has been seen yet.
NoSeen == [k \in {} |-> [probes |-> 0]]

\* No function is being looked at alone.
NoCallAlone == [op |-> "none"]

\* AvailabilityChecker.__init__
Init ==
    /\ _states = NoStates
    /\ _notifier = TelegramConfig(<<"token1">>, <<"chat1">>)
    /\ _checker_name = Some(<<"n1">>)
    /\ pc = "idle"
    /\ pending = <<>>
    /\ last = NoLast
    /\ call = NoCall
    /\ hist = [k \in {} |-> FreshHist]
    /\ ref_states = NoStates
    /\ config_file = NoDocument
    /\ service = NoService
    /\ seen = NoSeen
    /\ io = NoCallAlone

Next ==
    \/ \E targets \in TargetLists : check_targets(targets) /\ UNCHANGED observer_vars
    \/ check_targets_resume /\ UNCHANGED observer_vars
    \/ check_targets_return /\ UNCHANGED observer_vars

Spec == Init /\ [][Next]_vars

----------------------------------------------------------------------------
(* app/config.py: load_config on the document config.json holds.           *)

NoInt == [some |-> FALSE, val |-> 0]

SomeInt(n) == [some |-> TRUE, val |-> n]

\* dict.get(key, default)
Get(field, default) == IF field.some THEN field.val ELSE default

DefaultIntervalSeconds == 60

DefaultTimeoutSeconds == 5

DefaultFailureThreshold == 1

\* str.strip, with " " the whitespace token.
RECURSIVE strip(_)
strip(value) ==
    IF value = <<>> THEN <<>>
    ELSE IF Head(value) = " " THEN strip(Tail(value))
    ELSE IF value[Len(value)] = " " THEN strip(SubSeq(value, 1, Len(value) - 1))
    ELSE value

\* _validate_url accepts a value whose scheme is http or https and whose
\* netloc (what follows "//" up to the next "/", "?" or "#") is not empty.
_validate_url(value) ==
    /\ Len(value) >= 2
    /\ value[1] \in {"http://", "https://"}
    /\ value[2] \notin {"/", "?", "#"}

\* _require_positive_number accepts a value > 0.
_require_positive_number(value) == value > 0

GlobalDefaults(interval_seconds, timeout_seconds, failure_threshold) ==
    [interval_seconds |-> interval_seconds, timeout_seconds |-> timeout_seconds,
     failure_threshold |-> failure_threshold]

\* The dataclass AppConfig: it has these three fields and no other.
AppConfig(telegram, defaults, targets) ==
    [telegram |-> telegram, defaults |-> defaults, targets |-> targets]

\* Lines 76-97 for the item at position index + 1 of the list.
LoadTarget(item, index, defaults) ==
    LET stripped == strip(item.name)
        name == IF stripped = <<>> THEN <<"target-", ToString(index + 1)>> ELSE stripped
        url == strip(item.url)
        timeout_seconds == Get(item.timeout_seconds, defaults.timeout_seconds)
        failure_threshold == Get(item.failure_threshold, defaults.failure_threshold)
    IN  IF ~item.is_dict THEN [ok |-> FALSE]
        ELSE IF ~_validate_url(url) THEN [ok |-> FALSE]
        ELSE IF ~_require_positive_number(timeout_seconds) THEN [ok |-> FALSE]
        ELSE IF ~_require_positive_number(failure_threshold) THEN [ok |-> FALSE]
        ELSE [ok |-> TRUE,
              target |-> TargetConfig(name, url, item.enabled, timeout_seconds, failure_threshold)]

Raised(error) == [ok |-> FALSE, error |-> error]

load_config(document) ==
    IF ~document.readable THEN Raised("JSONDecodeError")
    ELSE
    LET bot_token == strip(document.telegram.bot_token)
        chat_id == strip(document.telegram.chat_id)
        defaults == GlobalDefaults(
            Get(document.global_defaults.interval_seconds, DefaultIntervalSeconds),
            Get(document.global_defaults.timeout_seconds, DefaultTimeoutSeconds),
            Get(document.global_defaults.failure_threshold, DefaultFailureThreshold))
        items == document.targets.items
        loaded == [i \in 1..Len(items) |-> LoadTarget(items[i], i - 1, defaults)]
    IN  IF bot_token = <<>> \/ chat_id = <<>> THEN Raised("ValueError")
        ELSE IF ~_require_positive_number(defaults.interval_seconds) THEN Raised("ValueError")
        ELSE IF ~_require_positive_number(defaults.timeout_seconds) THEN Raised("ValueError")
        ELSE IF ~_require_positive_number(defaults.failure_threshold) THEN Raised("ValueError")
        ELSE IF ~document.targets.is_list \/ items = <<>> THEN Raised("ValueError")
        ELSE IF \E i \in 1..Len(items) : ~loaded[i].ok THEN Raised("ValueError")
        ELSE [ok |-> TRUE,
              config |-> AppConfig(TelegramConfig(bot_token, chat_id), defaults,
                                   [i \in 1..Len(items) |-> loaded[i].target])]

\* The documents config.json holds in the model.
Item(name, url, enabled, failure_threshold) ==
    [is_dict |-> TRUE, name |-> name, url |-> url, enabled |-> enabled,
     timeout_seconds |-> NoInt, failure_threshold |-> failure_threshold]

TelegramFields ==
    { [bot_token |-> <<"token1">>, chat_id |-> <<"chat1">>],
      [bot_token |-> <<" ", "token2", " ">>, chat_id |-> <<"chat1">>],
      [bot_token |-> <<" ">>, chat_id |-> <<"chat1">>] }

CheckerNameFields == { None, Some(<<"n1">>) }

GlobalDefaultsFields ==
    { [interval_seconds |-> NoInt, timeout_seconds |-> NoInt, failure_threshold |-> NoInt],
      [interval_seconds |-> SomeInt(2), timeout_seconds |-> SomeInt(3), failure_threshold |-> SomeInt(2)],
      [interval_seconds |-> SomeInt(0), timeout_seconds |-> NoInt, failure_threshold |-> NoInt] }

TargetsFields ==
    { [is_list |-> FALSE, items |-> <<>>],
      [is_list |-> TRUE, items |-> <<>>],
      [is_list |-> TRUE, items |-> <<Item(<<"a">>, <<"http://", "x">>, TRUE, NoInt)>>],
      [is_list |-> TRUE, items |-> <<Item(<<"a">>, <<"http://", "x">>, TRUE, SomeInt(1)),
                                     Item(<<"a">>, <<"http://", "y">>, FALSE, NoInt)>>],
      [is_list |-> TRUE, items |-> <<Item(<<" ">>, <<" ", "https://", "y">>, TRUE, NoInt)>>],
      [is_list |-> TRUE, items |-> <<Item(<<"a">>, <<"http://", "/">>, TRUE, NoInt)>>],
      [is_list |-> TRUE, items |-> <<Item(<<"a">>, <<"http://", "x">>, TRUE, SomeInt(0))>>],
      [is_list |-> TRUE, items |-> <<[Item(<<>>, <<>>, TRUE, NoInt) EXCEPT !.is_dict = FALSE]>>] }

Documents ==
    { [readable |-> FALSE] }
    \cup { [readable |-> TRUE, telegram |-> tg, checker_name |-> cn,
            global_defaults |-> gd, targets |-> ts] :
             tg \in TelegramFields, cn \in CheckerNameFields,
             gd \in GlobalDefaultsFields, ts \in TargetsFields }

----------------------------------------------------------------------------
(* app/main.py: run_service, run by main through asyncio.run.              *)

\* Lines 53-56, which run without an await. load_config may raise. Line 56
\* reads config.checker_name: AppConfig has no such attribute, so the read
\* raises AttributeError. Whatever is raised leaves run_service, and main logs
\* "Service crashed" and raises it again. Lines 58-94 (the stop handlers of
\* lines 60-68 and the loop of lines 70-92) come after line 56.
run_service ==
    /\ service.pc = "start"
    /\ LET loaded == load_config(config_file) IN
       IF ~loaded.ok
       THEN service' = [service EXCEPT !.pc = "crashed", !.exc = loaded.error]
       ELSE IF "checker_name" \in DOMAIN loaded.config
            THEN service' = [service EXCEPT !.pc = "loop",
                                            !.config = [some |-> TRUE, val |-> loaded.config]]
            ELSE service' = [service EXCEPT !.pc = "crashed", !.exc = "AttributeError",
                                            !.config = [some |-> TRUE, val |-> loaded.config]]
    /\ UNCHANGED <<checker_vars, config_file, observer_vars>>

\* SIGINT or SIGTERM reaches the process while _stop_handler is not installed
\* (line 68 has not run). SIGTERM ends the process. SIGINT ends it with
\* KeyboardInterrupt, or, where asyncio.run handles it, asks for the main task
\* to be cancelled at its next await and lets the running lines go on.
stop_signal(sig) ==
    /\ service.pc = "start"
    /\ ~service.signalled
    /\ \/ /\ sig = "SIGTERM"
          /\ service' = [service EXCEPT !.pc = "killed", !.exc = "SIGTERM", !.signalled = TRUE]
       \/ /\ sig = "SIGINT"
          /\ service' = [service EXCEPT !.pc = "killed", !.exc = "KeyboardInterrupt",
                                        !.signalled = TRUE]
       \/ /\ sig = "SIGINT"
          /\ service' = [service EXCEPT !.signalled = TRUE]
    /\ UNCHANGED <<checker_vars, config_file, observer_vars>>

\* Somebody rewrites config.json while the process lives.
write_config(document) ==
    /\ service.pc = "start"
    /\ config_file' = document
    /\ UNCHANGED <<checker_vars, service, observer_vars>>

\* The process starts: no checker exists yet.
InitService ==
    /\ _states = NoStates
    /\ _notifier = TelegramConfig(<<>>, <<>>)
    /\ _checker_name = None
    /\ pc = "idle"
    /\ pending = <<>>
    /\ last = NoLast
    /\ call = NoCall
    /\ hist = [k \in {} |-> FreshHist]
    /\ ref_states = NoStates
    /\ config_file \in Documents
    /\ service = [NoService EXCEPT !.pc = "start"]
    /\ seen = NoSeen
    /\ io = NoCallAlone

NextService ==
    \/ run_service
    \/ \E sig \in {"SIGINT", "SIGTERM"} : stop_signal(sig)
    \/ \E document \in Documents : write_config(document)

SpecService == InitService /\ [][NextService]_vars

----------------------------------------------------------------------------
(* The checker in the hands of an owner that, between two calls of          *)
(* check_targets, replaces the notifier and the checker name (as the loop   *)
(* of run_service does after a reload), and passes lists in which a target  *)
(* comes and goes, is disabled, changes its threshold or occurs twice.      *)

\* One target that is enabled or disabled, and another with its URL.
OwnerTargets ==
    { t \in TargetConfigs :
        /\ t.url = <<"http://", "x">>
        /\ (t.failure_threshold = MaxThreshold \/ ~t.enabled \/ t.name = <<"b">>) }

OwnerLists == UNION { [1..n -> OwnerTargets] : n \in 0..MaxTargets }

\* One target under two thresholds or disabled, and another with its URL.
AlertTargets == { t \in TargetConfigs : t.url = <<"http://", "x">> }

AlertLists == UNION { [1..n -> AlertTargets] : n \in 0..MaxTargets }

FreshSeen == [notified |-> "none", previous |-> "none", missed |-> FALSE, resumed |-> FALSE,
              probes |-> 0]

Kind(message) == IF IsDown(message) THEN "DOWN" ELSE "RECOVERED"

\* A call starts: the keys no enabled target of its list has are left out of it.
SeenAtCall(targets) ==
    [k \in DOMAIN seen |->
        [seen[k] EXCEPT !.missed = @ \/ \A i \in 1..Len(targets) :
                                            ~targets[i].enabled \/ state_key(targets[i]) # k]]

\* What the step just taken adds to `s`, when it probed a target.
SeenAfterProbe(s) ==
    IF last'.op # "check" THEN s
    ELSE LET k == state_key(last'.target)
             old == IF k \in DOMAIN s THEN s[k] ELSE FreshSeen
             sends == last'.sends
         IN  Store(s, k,
                   [notified |-> IF sends = <<>> THEN old.notified
                                 ELSE Kind(sends[Len(sends)].message),
                    previous |-> IF sends = <<>> THEN old.previous
                                 ELSE IF Len(sends) = 1 THEN old.notified
                                 ELSE Kind(sends[Len(sends) - 1].message),
                    missed |-> FALSE,
                    resumed |-> old.missed,
                    probes |-> old.probes + 1])

\* The call is over.
SeenAtReturn == [k \in DOMAIN seen |-> [seen[k] EXCEPT !.resumed = FALSE, !.probes = 0]]

\* check_targets, called with a list of `lists`, and what the owner sees of it.
check_targets_seen(lists) ==
    \E targets \in lists :
        /\ check_targets(targets)
        /\ seen' = SeenAfterProbe(SeenAtCall(targets))
        /\ UNCHANGED io

check_targets_resume_seen ==
    /\ check_targets_resume
    /\ seen' = SeenAfterProbe(seen)
    /\ UNCHANGED io

check_targets_return_seen ==
    /\ check_targets_return
    /\ seen' = SeenAtReturn
    /\ UNCHANGED io

NextOwner ==
    \/ check_targets_seen(OwnerLists)
    \/ check_targets_resume_seen
    \/ check_targets_return_seen
    \/ \E notifier \in Notifiers : set_notifier(notifier) /\ UNCHANGED observer_vars
    \/ \E checker_name \in CheckerNames : set_checker_name(checker_name) /\ UNCHANGED observer_vars

SpecOwner == Init /\ [][NextOwner]_vars

\* The checker called cycle after cycle, notifier and checker name left alone.
NextAlerts ==
    \/ check_targets_seen(AlertLists)
    \/ check_targets_resume_seen
    \/ check_targets_return_seen

SpecAlerts == Init /\ [][NextAlerts]_vars

----------------------------------------------------------------------------
(* Functions taken alone: one call, on arguments drawn from the sets below. *)

\* Everything but io is as AvailabilityChecker.__init__ leaves it.
NothingElse ==
    /\ _states = NoStates
    /\ _notifier = TelegramConfig(<<"token1">>, <<"chat1">>)
    /\ _checker_name = Some(<<"n1">>)
    /\ pc = "idle"
    /\ pending = <<>>
    /\ last = NoLast
    /\ call = NoCall
    /\ hist = [k \in {} |-> FreshHist]
    /\ ref_states = NoStates
    /\ config_file = NoDocument
    /\ service = NoService
    /\ seen = NoSeen

\* TelegramNotifier.send alone.
SendStatuses == {200, 204, 299, 301, 403, 500}

SendBodies ==
    { <<"{", "}">>, <<"{", "ok", ":">>, <<"<html>">>, <<>> }
    \cup { OkBody(value) : value \in JsonValues }
    \cup { <<value>> : value \in {"null", "[]", "1"} }

SendAnswers ==
    { Answer(status, body) : status \in SendStatuses, body \in SendBodies }
    \cup { TransportError(type) : type \in {"ConnectError", "ReadTimeout"} }

SendMessages ==
    { RecoveredMessage(None, TargetConfig(<<"a">>, <<"http://", "x">>, TRUE, 5, 1)),
      <<>> }

InitNotifier ==
    /\ NothingElse
    /\ io \in { [op |-> "send", notifier |-> notifier, message |-> message, answer |-> answer,
                  done |-> FALSE, out |-> [raised |-> FALSE, result |-> FALSE]] :
                    notifier \in Notifiers, message \in SendMessages, answer \in SendAnswers }

send_alone ==
    /\ io.op = "send"
    /\ ~io.done
    /\ io' = [io EXCEPT !.done = TRUE, !.out = send(io.notifier, io.message, io.answer)]
    /\ UNCHANGED <<checker_vars, service_vars, seen>>

SpecNotifier == InitNotifier /\ [][send_alone]_vars

\* AvailabilityChecker._request_status alone.
ProbeResponses ==
    { Status(code, hops) : code \in {200, 201, 204, 301, 404, 500, 503}, hops \in {0, 1} }
    \cup { Exception(type, message) :
               type \in {"ConnectTimeout", "ConnectError", "TooManyRedirects"},
               message \in {<<"timed out">>, <<>>} }

InitProbe ==
    /\ NothingElse
    /\ io \in { [op |-> "_request_status", target |-> target, response |-> response,
                  done |-> FALSE,
                  out |-> [raised |-> FALSE, is_ok |-> FALSE, reason |-> <<>>, gets |-> 0]] :
                    target \in TargetConfigs, response \in ProbeResponses }

_request_status_alone ==
    /\ io.op = "_request_status"
    /\ ~io.done
    /\ io' = [io EXCEPT !.done = TRUE, !.out = _request_status(io.target, io.response)]
    /\ UNCHANGED <<checker_vars, service_vars, seen>>

SpecProbe == InitProbe /\ [][_request_status_alone]_vars

\* load_config and the state keys of the targets it returns, alone.
KeyNames == { <<"a">>, <<"a", "|", "http://", "x">>, <<"b">>, <<" ">> }

KeyUrls ==
    { <<"http://", "x">>, <<"http://", "y">>, <<"http://", "x", "|", "http://", "y">>, <<"x">> }

KeyDocuments ==
    { [readable |-> TRUE,
       telegram |-> [bot_token |-> <<"token1">>, chat_id |-> <<"chat1">>],
       checker_name |-> None,
       global_defaults |-> [interval_seconds |-> NoInt, timeout_seconds |-> NoInt,
                            failure_threshold |-> NoInt],
       targets |-> [is_list |-> TRUE,
                    items |-> <<Item(name1, url1, TRUE, NoInt), Item(name2, url2, TRUE, NoInt)>>]] :
          name1 \in KeyNames, url1 \in KeyUrls, name2 \in KeyNames, url2 \in KeyUrls }

InitKey ==
    /\ NothingElse
    /\ io \in { [op |-> "state_key", document |-> document, done |-> FALSE,
                  loaded |-> FALSE, targets |-> <<>>, keys |-> <<>>] :
                    document \in KeyDocuments }

state_key_alone ==
    /\ io.op = "state_key"
    /\ ~io.done
    /\ LET loaded == load_config(io.document) IN
       IF loaded.ok
       THEN io' = [io EXCEPT !.done = TRUE, !.loaded = TRUE,
                             !.targets = loaded.config.targets,
                             !.keys = [i \in 1..Len(loaded.config.targets) |->
                                           state_key(loaded.config.targets[i])]]
       ELSE io' = [io EXCEPT !.done = TRUE]
    /\ UNCHANGED <<checker_vars, service_vars, seen>>

SpecKey == InitKey /\ [][state_key_alone]_vars

----------------------------------------------------------------------------
(* Properties of the checker.                                              *)

\* The entry the checker holds for `target` after the latest step.
Entry(target) == Lookup(_states, state_key(target), TargetState)

LastKey == state_key(last.target)

DownsIn(sends) == Cardinality({i \in 1..Len(sends) : IsDown(sends[i].message)})

\* C1: from a fresh entry, with every probe checked against the same
\* threshold T, the first T-1 consecutive failed probes send no DOWN, the T-th
\* sends exactly one DOWN and sets is_down, and the failed probes after it send
\* none: the run of fails failed probes has sent one DOWN iff fails >= T, and
\* the failed probe just checked sent one DOWN iff it was the T-th.
C1_OneDownAtThreshold ==
    /\ \A k \in DOMAIN hist :
          hist[k].T >= 1 =>
              /\ hist[k].downs = (IF hist[k].fails >= hist[k].T THEN 1 ELSE 0)
              /\ _states[k].is_down = (hist[k].fails >= hist[k].T)
    /\ (last.op = "check" /\ ~last.is_ok /\ hist[LastKey].T >= 1) =>
          /\ DownsIn(last.sends) = (IF hist[LastKey].fails = hist[LastKey].T THEN 1 ELSE 0)
          /\ Len(last.sends) = DownsIn(last.sends)

\* A target with the largest threshold has failed T+1 times in a row.
C1_Witness ==
    \E k \in DOMAIN hist :
        /\ hist[k].T = MaxThreshold
        /\ hist[k].fails = MaxThreshold + 1
        /\ hist[k].downs = 1
        /\ last.op = "check" /\ LastKey = k /\ last.sends = <<>>

\* C2: a successful probe of an entry that is DOWN sends exactly one
\* RECOVERED notification and leaves is_down = false and
\* consecutive_failures = 0, whatever the counter was.
C2_RecoveredOnSuccessWhileDown ==
    (last.op = "check" /\ last.is_ok /\ last.pre.is_down) =>
        /\ Len(last.sends) = 1
        /\ IsRecovered(last.sends[1].message)
        /\ ~IsDown(last.sends[1].message)
        /\ _states[LastKey] = [consecutive_failures |-> 0, is_down |-> FALSE]

\* A DOWN entry whose counter had grown past its threshold has recovered.
C2_Witness ==
    /\ last.op = "check" /\ last.is_ok /\ last.pre.is_down
    /\ last.pre.consecutive_failures > last.target.failure_threshold
    /\ Len(last.sends) = 1

\* C3: a successful probe of an entry that is UP with a counter below the
\* threshold sets the counter to 0, leaves is_down false and sends nothing;
\* a run of failures shorter than the threshold has sent no notification.
C3_QuietResetBelowThreshold ==
    /\ (/\ last.op = "check" /\ last.is_ok /\ ~last.pre.is_down
        /\ last.pre.consecutive_failures < last.target.failure_threshold) =>
          /\ last.sends = <<>>
          /\ _states[LastKey] = [consecutive_failures |-> 0, is_down |-> FALSE]
    /\ \A k \in DOMAIN hist :
          (hist[k].T >= 1 /\ hist[k].fails < hist[k].T) => hist[k].downs = 0

\* A success has interrupted a run of failures shorter than the threshold.
C3_Witness ==
    /\ last.op = "check" /\ last.is_ok /\ ~last.pre.is_down
    /\ last.pre.consecutive_failures >= 1
    /\ last.pre.consecutive_failures < last.target.failure_threshold

\* C4: check_targets never probes a disabled target, sends nothing for it and
\* creates or changes no entry because of it: every probe is of an enabled
\* target, a step changes at most the entry of the enabled target it probes,
\* and a call whose list holds no enabled target probes nothing, sends
\* nothing and leaves the whole map as it was.
C4_DisabledNeverChecked ==
    [][ /\ (last'.op = "check") => last'.target.enabled
        /\ \A i \in 1..Len(pending') : pending'[i].enabled
        /\ (_states' # _states) =>
              /\ last'.op = "check" /\ last'.target.enabled
              /\ \A k \in DOMAIN _states' :
                    k # state_key(last'.target) => (k \in DOMAIN _states /\ _states'[k] = _states[k])
        /\ (pc = "idle" /\ pc' = "checking" /\ last'.op # "check") =>
              (_states' = _states /\ pending' = <<>> /\ last'.sends = <<>>) ]_vars

\* A call whose list holds only disabled targets, on a checker that has entries.
C4_Witness ==
    /\ pc = "checking" /\ last.op = "warning"
    /\ call.disabled >= 1
    /\ _states # NoStates

SameNameOrUrl(t, u) ==
    \/ t.name = u.name /\ t.url # u.url
    \/ t.url = u.url /\ t.name # u.name

\* C5: for two targets with the same name and different URLs, or the same URL
\* and different names, a probe of one leaves the entry of the other as it was
\* (its consecutive_failures, its is_down, and whether it exists), and the
\* notification it sends names the probed target.
C5_IndependentState ==
    [][ \A t \in TargetConfigs :
            (last'.op = "check" /\ SameNameOrUrl(t, last'.target)) =>
                /\ Entry(t)' = Entry(t)
                /\ (state_key(t) \in DOMAIN _states') = (state_key(t) \in DOMAIN _states)
                /\ \A i \in 1..Len(last'.sends) :
                      last'.sends[i].message \in
                          { RecoveredMessage(_checker_name, last'.target) }
                          \cup { DownMessage(_checker_name, last'.target, r, _states'[state_key(last'.target)]) :
                                    r \in { _request_status(last'.target, resp).reason : resp \in Responses } } ]_vars

\* One target is DOWN while a target with its name and another URL, and a
\* target with its URL and another name, are UP, one of them just probed.
C5_Witness ==
    \E t, u, v \in TargetConfigs :
        /\ t.name = u.name /\ t.url # u.url
        /\ t.url = v.url /\ t.name # v.name
        /\ {state_key(t), state_key(u), state_key(v)} \subseteq DOMAIN _states
        /\ Entry(t).is_down /\ ~Entry(u).is_down /\ ~Entry(v).is_down
        /\ last.op = "check" /\ last.target \in {u, v}

\* C6: consecutive_failures is never negative, and an entry is DOWN only if,
\* since the last successful probe of its key, a check found the counter at or
\* above the failure_threshold in force at that check.
C6_DownOnlyAfterThreshold ==
    \A k \in DOMAIN _states :
        /\ _states[k].consecutive_failures >= 0
        /\ _states[k].is_down => (k \in DOMAIN hist /\ hist[k].reached)

\* An entry is DOWN after failed probes checked against different thresholds.
C6_Witness ==
    \E k \in DOMAIN _states : _states[k].is_down /\ hist[k].T = Mixed

\* C7: a send that returns false changes nothing: the entries are those of a
\* run in which every send returned true, each check sends at most one
\* notification, and it sends exactly the notifications that run sends.
C7_SendFailureKeepsTransition ==
    /\ _states = ref_states
    /\ last.op = "check" =>
          /\ Len(last.sends) <= 1
          /\ Messages(last.sends) = last.ref_sent

\* A DOWN notification was not delivered and the entry is DOWN.
C7_Witness ==
    /\ last.op = "check" /\ Len(last.sends) = 1
    /\ IsDown(last.sends[1].message) /\ ~last.sends[1].result
    /\ _states[LastKey].is_down

C16_CounterCountsFailuresSinceSuccess ==
    /\ DOMAIN hist = DOMAIN _states
    /\ \A k \in DOMAIN _states : _states[k].consecutive_failures = hist[k].fails
    /\ (last.op = "check" /\ ~last.is_ok) =>
          _states[LastKey].consecutive_failures = last.pre.consecutive_failures + 1
    /\ (last.op = "check" /\ last.is_ok) => _states[LastKey].consecutive_failures = 0

\* A failed probe of a DOWN entry has taken its counter past the threshold.
C16_Witness ==
    /\ last.op = "check" /\ ~last.is_ok /\ last.pre.is_down
    /\ last.pre.consecutive_failures >= last.target.failure_threshold
    /\ _states[LastKey].consecutive_failures = hist[LastKey].fails
    /\ hist[LastKey].fails = MaxFailures

\* C19: while the probes of a key since its latest success were all checked
\* against the same threshold T, its entry is DOWN exactly when its counter is
\* at least T; an entry with no failed probe since its latest success is UP
\* with counter 0, below every threshold.
C19_DownIffCounterAtThreshold ==
    \A k \in DOMAIN _states :
        /\ hist[k].T >= 1 => (_states[k].is_down = (_states[k].consecutive_failures >= hist[k].T))
        /\ hist[k].T = 0 => (~_states[k].is_down /\ _states[k].consecutive_failures = 0)

\* One entry is UP with failures below its threshold while another is DOWN
\* with a counter above its own.
C19_Witness ==
    \E k, j \in DOMAIN _states :
        /\ hist[k].T = MaxThreshold /\ ~_states[k].is_down
        /\ _states[k].consecutive_failures = MaxThreshold - 1
        /\ hist[j].T >= 1 /\ _states[j].is_down
        /\ _states[j].consecutive_failures > hist[j].T

----------------------------------------------------------------------------
(* Properties of the checker in the hands of its owner.                    *)

\* C15: an entry is created by the first check of its key, as (0, false); no
\* step removes an entry, and a step changes an entry only by probing its key,
\* starting from the entry as it was: replacing the notifier or the checker
\* name and calls that leave the key out or have it disabled change nothing of
\* it, and a DOWN entry that is probed again and still fails stays DOWN, adds
\* 1 to its counter and sends nothing.
C15_EntriesPersist ==
    [][ /\ \A k \in DOMAIN _states :
              /\ k \in DOMAIN _states'
              /\ _states'[k] # _states[k] => (last'.op = "check" /\ state_key(last'.target) = k)
        /\ \A k \in DOMAIN _states' \ DOMAIN _states :
              /\ last'.op = "check" /\ state_key(last'.target) = k
              /\ last'.created /\ last'.pre = [consecutive_failures |-> 0, is_down |-> FALSE]
        /\ (last'.op = "check" /\ state_key(last'.target) \in DOMAIN _states) =>
              /\ ~last'.created
              /\ last'.pre = _states[state_key(last'.target)]
              /\ (last'.pre.is_down /\ ~last'.is_ok) =>
                    /\ last'.sends = <<>>
                    /\ _states'[state_key(last'.target)] =
                          [consecutive_failures |-> last'.pre.consecutive_failures + 1,
                           is_down |-> TRUE] ]_vars

\* A DOWN entry, left out of a call or disabled in it, is probed again with
\* another notifier and no checker name, fails, and sends nothing.
C15_Witness ==
    /\ last.op = "check" /\ ~last.is_ok /\ last.pre.is_down
    /\ seen[LastKey].resumed
    /\ last.sends = <<>>
    /\ _states[LastKey] = [consecutive_failures |-> last.pre.consecutive_failures + 1,
                            is_down |-> TRUE]
    /\ _notifier = TelegramConfig(<<"token2">>, <<"chat1">>)
    /\ _checker_name = None

\* C18: the notifications about a state key alternate, starting with DOWN:
\* each one differs in kind from the one sent before it for that key, a
\* RECOVERED is never the first, and a check sends at most one.
C18_NotificationsAlternate ==
    /\ \A k \in DOMAIN seen :
          /\ seen[k].notified # "none" => seen[k].notified # seen[k].previous
          /\ seen[k].previous = "none" => seen[k].notified \in {"none", "DOWN"}
          /\ seen[k].notified = "RECOVERED" => seen[k].previous = "DOWN"
    /\ last.op = "check" =>
          /\ Len(last.sends) <= 1
          /\ \A i \in 1..Len(last.sends) :
                IsDown(last.sends[i].message) # IsRecovered(last.sends[i].message)

\* A key is DOWN for the second time, under another threshold than the first
\* time, after a notification that was not delivered.
C18_Witness ==
    /\ last.op = "check" /\ Len(last.sends) = 1 /\ ~last.sends[1].result
    /\ seen[LastKey].notified = "DOWN" /\ seen[LastKey].previous = "RECOVERED"
    /\ hist[LastKey].T = Mixed

\* C20: within one call of check_targets every entry is updated by at most one
\* probe result.
C20_OneProbePerEntryPerCycle ==
    \A k \in DOMAIN seen : seen[k].probes <= 1

----------------------------------------------------------------------------
(* Properties of run_service.                                              *)

\* C9: once a stop signal has been received the service shuts down in order and
\* reaches "Service stopped": a service that holds its config and has been
\* sent a stop signal is running or has stopped, it has not ended by an
\* exception.
C9_StopSignalLeadsToServiceStopped ==
    (service.signalled /\ service.config.some) => service.pc # "crashed"

\* C10: run_service keeps the valid config it holds and goes on whatever a
\* later step raises: once it holds a config, no exception ends it.
C10_ServiceKeepsRunningOnItsConfig ==
    service.config.some => service.pc # "crashed"

\* C11: the checker name of the config source is supported end to end: the
\* config run_service holds carries a checker name (set or not), and reading it
\* ends the service with no AttributeError.
C11_CheckerNameSupportedEndToEnd ==
    service.config.some =>
        /\ "checker_name" \in DOMAIN service.config.val
        /\ service.exc # "AttributeError"

\* C14: run_service runs one check cycle per turn of its loop, one after the
\* other, waiting max(0, interval - elapsed) between two: a service that holds
\* its config and has left its first lines is in that loop.
C14_OneCyclePerLoopIteration ==
    (service.config.some /\ service.pc \notin {"start", "killed"}) => service.pc = "loop"

----------------------------------------------------------------------------
(* Properties of the functions taken alone.                                *)

\* C12: send never raises, and it returns true exactly when the post came
\* through with a 2xx status and a body that is a JSON object whose "ok" is
\* truthy; on a transport error, another status, a body that is no JSON, no
\* object, or has "ok" missing or falsy, it returns false.
C12_SendReturnsAcknowledgment ==
    (io.op = "send" /\ io.done) =>
        /\ ~io.out.raised
        /\ io.out.result =
              (/\ io.answer.transport = "ok"
               /\ io.answer.status \in 200..299
               /\ \E value \in {"true", "1", "'x'"} : io.answer.body = OkBody(value))

\* send returned true for a 2xx status other than 200 and an "ok" that is
\* truthy without being true.
C12_Witness ==
    /\ io.op = "send" /\ io.done
    /\ io.answer.status = 299 /\ io.answer.body = OkBody("1")
    /\ io.out.result

\* C13: the probe calls client.get once, never raises, and returns ok = true
\* exactly when the final status is 200; another status N gives
\* (false, "status_code=N"), an exception gives false and a reason made of the
\* exception's type and message.
C13_ProbeOkIffStatus200 ==
    (io.op = "_request_status" /\ io.done) =>
        /\ ~io.out.raised
        /\ io.out.gets = 1
        /\ io.out.is_ok = (io.response.kind = "status" /\ io.response.code = 200)
        /\ io.response.kind = "status" =>
              io.out.reason = <<"status_code=", ToString(io.response.code)>>
        /\ io.response.kind = "exception" =>
              /\ io.out.reason[1] = io.response.exc.type
              /\ SubSeq(io.out.reason, 3, Len(io.out.reason)) = io.response.exc.message

\* A final status of 204, reached after a redirect, is a failed probe.
C13_Witness ==
    /\ io.op = "_request_status" /\ io.done
    /\ io.response.kind = "status" /\ io.response.code = 204 /\ io.response.hops = 1
    /\ ~io.out.is_ok /\ io.out.reason = <<"status_code=", "204">>

\* C17: two targets load_config accepts whose (name, URL) pairs differ have
\* different state keys.
C17_StateKeyInjective ==
    (io.op = "state_key" /\ io.done /\ io.loaded) =>
        \A i, j \in 1..Len(io.targets) :
            (io.targets[i].name # io.targets[j].name \/ io.targets[i].url # io.targets[j].url)
                => io.keys[i] # io.keys[j]

====
